---- MODULE Spec2Model ----
(***************************************************************************)
(* Model of the pin-mapper editor (src/main.py, class PinMapper).          *)
(*                                                                         *)
(* The editor is a single-threaded event loop: every mouse event runs      *)
(* mouse_callback to completion, every key runs one branch of the loop of  *)
(* run.  One action below is one such event, with everything it calls.     *)
(*                                                                         *)
(* Numbers.  zoom_factor and offset are Python floats.  They are modelled  *)
(* as exact rationals <<n, d>> (d > 0, lowest terms); int() is truncation  *)
(* toward zero.  Pixel coordinates are integers.                           *)
(*                                                                         *)
(* Optional values.  None is the empty tuple <<>>; a point is <<x, y>>, a  *)
(* rectangle <<x1, y1, x2, y2>>.  Python truthiness of such a field        *)
(* ("if self.rect_start") is "is not None": a tuple of two is never empty. *)
(***************************************************************************)
EXTENDS Integers, Sequences, FiniteSets, TLC

\* ------------------------------------------------------------------------
\* Bounds of the model
\* ------------------------------------------------------------------------

\* Most wheel events of one session.
MaxWheel == 3

\* Most wheel events of an annotation session.
MaxEditWheel == 1

\* Most entries of the undo history of one session.
MaxHistory == 4

\* Image size (and window size: update_display makes the canvas that size).
ImgWidth == 20

ImgHeight == 16

\* Screen positions of the mouse events.  Rectangles are dragged from a
\* point of PressPoints to a point of DragPoints, pins are clicked at
\* ClickPoints, the wheel is turned and the view dragged at Points.
PointA == <<0, 0>>

PointB == <<6, 4>>

PointC == <<15, 12>>

Points == {PointA, PointB, PointC}

PressPoints == {PointA}

DragPoints == {PointB, PointC}

ClickPoints == {PointB, PointC}

EditWheelPoints == {PointB}

\* Modifier keys held during a left-button event; during other events the
\* flags are Plain, or the right button while it is down.
Modifiers == {{}, {"SHIFT"}, {"CTRL"}, {"ALT"}}

Plain == {{}}

\* ------------------------------------------------------------------------
\* Integer helpers (Python min, max, abs)
\* ------------------------------------------------------------------------

Min(a, b) == IF a <= b THEN a ELSE b

Max(a, b) == IF a >= b THEN a ELSE b

Abs(a) == IF a < 0 THEN 0 - a ELSE a

RECURSIVE Gcd(_, _)
Gcd(a, b) == IF b = 0 THEN a ELSE Gcd(b, a % b)

\* ------------------------------------------------------------------------
\* Float arithmetic, as exact rationals <<n, d>>
\* ------------------------------------------------------------------------

Rat(n, d) ==
    LET s == IF d < 0 THEN 0 - 1 ELSE 1
        g == Gcd(Abs(n), Abs(d))
    IN  <<(s * n) \div g, (s * d) \div g>>

RInt(i) == <<i, 1>>

RNeg(p) == <<0 - p[1], p[2]>>

RAdd(p, q) ==
    LET g == Gcd(p[2], q[2])
    IN  Rat(p[1] * (q[2] \div g) + q[1] * (p[2] \div g), p[2] * (q[2] \div g))

RSub(p, q) == RAdd(p, RNeg(q))

RMul(p, q) ==
    LET g1 == Gcd(Abs(p[1]), q[2])
        g2 == Gcd(Abs(q[1]), p[2])
    IN  Rat((p[1] \div g1) * (q[1] \div g2), (p[2] \div g2) * (q[2] \div g1))

RDiv(p, q) == RMul(p, IF q[1] < 0 THEN <<0 - q[2], 0 - q[1]>> ELSE <<q[2], q[1]>>)

\* The same with an integer operand i (no common factor can appear).
RAddInt(p, i) == <<p[1] + i * p[2], p[2]>>

RIntSub(i, p) == <<i * p[2] - p[1], p[2]>>

RLeInt(p, i) == p[1] <= i * p[2]

\* Python max(p, i) and min(p, i)
RMaxInt(p, i) == IF RLeInt(p, i) THEN RInt(i) ELSE p

RMinInt(p, i) == IF RLeInt(p, i) THEN p ELSE RInt(i)

\* Python int(float): truncation toward zero.
Trunc(p) == IF p[1] >= 0 THEN p[1] \div p[2] ELSE 0 - ((0 - p[1]) \div p[2])

\* The zoom step of the wheel handler.
ZoomStep == <<11, 10>>

\* ------------------------------------------------------------------------
\* State
\* ------------------------------------------------------------------------

VARIABLES
    pin_locations,    \* list of [pin_number, x, y]
    label_locations,  \* list of [label_id, text, x1, y1, x2, y2]
    linked_pins,      \* list of [pin_number, x, y, label, label_bounds]
    history,          \* list of [type, data]
    current_pin,
    current_label,
    zoom_factor,      \* rational
    offset,           \* <<rational, rational>>
    drag_start,       \* None or screen point
    drawing_rect,
    rect_start,       \* None or image point
    rect_end,         \* None or image point
    crop_rect,        \* None or <<x1, y1, x2, y2>>
    is_cropped,
    running,          \* the loop of run has not left
    lbutton,          \* the left button is physically down
    printed,          \* the last line the latest event printed (Quiet: none)
    output_file,      \* None or the record save_pin_locations wrote
    save_result,      \* None or <<the value save_pin_locations returned>>
    wheel_count,      \* wheel events so far
    snapshots,        \* for each history entry, the annotations before it
    maker,            \* None or the DevBoardMaker object of a session
    call,             \* None or the arguments of a call of a batch function
    result            \* None or what that call returned, raised and wrote

annotations == <<pin_locations, label_locations, linked_pins, history,
                 current_pin, current_label>>

vars == <<pin_locations, label_locations, linked_pins, history, current_pin,
          current_label, zoom_factor, offset, drag_start, drawing_rect,
          rect_start, rect_end, crop_rect, is_cropped, running, lbutton,
          printed, output_file, save_result, wheel_count, snapshots,
          maker, call, result>>

\* The state of the other programs of the repository, which the pin-mapper
\* editor never touches.
tools == <<maker, call, result>>

\* The state of the pin-mapper editor.
editor == <<pin_locations, label_locations, linked_pins, history, current_pin,
            current_label, zoom_factor, offset, drag_start, drawing_rect,
            rect_start, rect_end, crop_rect, is_cropped, running, lbutton,
            printed, output_file, save_result, wheel_count, snapshots>>

None == <<>>

\* An event that prints nothing.
Quiet == ""

\* ------------------------------------------------------------------------
\* PinMapper.__init__
\* ------------------------------------------------------------------------

PinMapperInit ==
    /\ pin_locations = <<>>
    /\ label_locations = <<>>
    /\ linked_pins = <<>>
    /\ history = <<>>
    /\ current_pin = 0
    /\ current_label = 0
    /\ zoom_factor = RInt(1)
    /\ offset = <<RInt(0), RInt(0)>>
    /\ drag_start = None
    /\ drawing_rect = FALSE
    /\ rect_start = None
    /\ rect_end = None
    /\ crop_rect = None
    /\ is_cropped = FALSE
    /\ running = TRUE
    /\ lbutton = FALSE
    /\ printed = "Controls"
    /\ output_file = None
    /\ save_result = None
    /\ wheel_count = 0
    /\ snapshots = <<>>

\* No other program of the repository has been started.
ToolsIdle == maker = None /\ call = None /\ result = None

\* A pin-mapper session after run has loaded the image.
Init == PinMapperInit /\ ToolsIdle

\* ------------------------------------------------------------------------
\* View transform
\* ------------------------------------------------------------------------

\* get_original_coordinates: screen point to image point under a view.
get_original_coordinates(x, y, z, off) ==
    << Trunc(RDiv(RIntSub(x, off[1]), z)),
       Trunc(RDiv(RIntSub(y, off[2]), z)) >>

\* Length of the numpy slice a[lo:hi] of an axis of length n (lo, hi >= 0).
SliceLen(lo, hi, n) == Max(0, Min(hi, n) - Min(lo, n))

\* A slip: the lower bound of the clamp is forgotten.
ClampOffset_UpperOnly(o, size, new_size) == RMinInt(o, 0)

\* The clamp of update_display, one axis.
ClampOffset(o, size, new_size) == RMinInt(RMaxInt(o, size - new_size), 0)

\* The size of the scaled image, the clamped offset and the two ranges of
\* the blit, as update_display computes them before the blit:
\* display[y1:y2, x1:x2] = resized[display_y1:display_y2, display_x1:display_x2].
VisibleRegion(z, off) ==
    LET new_width == Trunc(RMul(RInt(ImgWidth), z))
        new_height == Trunc(RMul(RInt(ImgHeight), z))
        ox == ClampOffset(off[1], ImgWidth, new_width)
        oy == ClampOffset(off[2], ImgHeight, new_height)
        y1 == Max(0, Trunc(oy))
        y2 == Min(ImgHeight, Trunc(RAddInt(oy, new_height)))
        x1 == Max(0, Trunc(ox))
        x2 == Min(ImgWidth, Trunc(RAddInt(ox, new_width)))
        display_y1 == Max(0, Trunc(RNeg(oy)))
        display_x1 == Max(0, Trunc(RNeg(ox)))
    IN  [new_width |-> new_width, new_height |-> new_height,
         offset |-> <<ox, oy>>,
         x1 |-> x1, x2 |-> x2, y1 |-> y1, y2 |-> y2,
         display_x1 |-> display_x1, display_x2 |-> display_x1 + (x2 - x1),
         display_y1 |-> display_y1, display_y2 |-> display_y1 + (y2 - y1)]

\* update_display: the view it leaves behind.  The blit raises ValueError
\* when the two slices differ in shape (a source axis of length 1 is
\* broadcast); the handler then resets the view.
update_display(z, off) ==
    LET new_width == Trunc(RMul(RInt(ImgWidth), z))
        new_height == Trunc(RMul(RInt(ImgHeight), z))
        ox == ClampOffset(off[1], ImgWidth, new_width)
        oy == ClampOffset(off[2], ImgHeight, new_height)
        y1 == Max(0, Trunc(oy))
        y2 == Min(ImgHeight, Trunc(RAddInt(oy, new_height)))
        x1 == Max(0, Trunc(ox))
        x2 == Min(ImgWidth, Trunc(RAddInt(ox, new_width)))
        display_y1 == Max(0, Trunc(RNeg(oy)))
        display_y2 == display_y1 + (y2 - y1)
        display_x1 == Max(0, Trunc(RNeg(ox)))
        display_x2 == display_x1 + (x2 - x1)
        dst_h == SliceLen(y1, y2, ImgHeight)
        dst_w == SliceLen(x1, x2, ImgWidth)
        src_h == SliceLen(display_y1, display_y2, new_height)
        src_w == SliceLen(display_x1, display_x2, new_width)
        blit_ok == /\ (src_h = dst_h \/ src_h = 1)
                   /\ (src_w = dst_w \/ src_w = 1)
    IN  IF blit_ok
        THEN [zoom |-> z, offset |-> <<ox, oy>>]
        ELSE [zoom |-> RInt(1), offset |-> <<RInt(0), RInt(0)>>]

\* ------------------------------------------------------------------------
\* Rectangles and containment
\* ------------------------------------------------------------------------

\* "Ensure correct order of coordinates" of the three process_* methods.
NormRect(a, b) == << Min(a[1], b[1]), Min(a[2], b[2]),
                     Max(a[1], b[1]), Max(a[2], b[2]) >>

PinInRect(pin, r) ==
    /\ r[1] <= pin.x /\ pin.x <= r[3]
    /\ r[2] <= pin.y /\ pin.y <= r[4]

LabelInRect(label, r) ==
    /\ r[1] <= label.x1 /\ label.x1 <= r[3]
    /\ r[2] <= label.y1 /\ label.y1 <= r[4]
    /\ r[1] <= label.x2 /\ label.x2 <= r[3]
    /\ r[2] <= label.y2 /\ label.y2 <= r[4]

\* A slip: every pin counts, wherever it lies.
contained_pins_All(r) == pin_locations

contained_pins(r) == LET In(pin) == PinInRect(pin, r) IN SelectSeq(pin_locations, In)

\* A slip: "at least one label" (the first label found is taken).
contained_labels_First(r) ==
    LET In(label) == LabelInRect(label, r)
        found == SelectSeq(label_locations, In)
    IN  IF found = <<>> THEN found ELSE <<found[1]>>

contained_labels(r) == LET In(label) == LabelInRect(label, r) IN SelectSeq(label_locations, In)

\* roi = self.image[y1:y2, x1:x2]; roi.size
RoiSize(r) == SliceLen(r[2], r[4], ImgHeight) * SliceLen(r[1], r[3], ImgWidth)

\* ------------------------------------------------------------------------
\* Recognized text
\* ------------------------------------------------------------------------

\* Strings are sequences of one-character strings.
Whitespace == {" "}

Alnum == {"A", "D", "I", "N", "P", "0", "1", "a"}

\* What the recognizer returns for the regions of the loaded image: the
\* picture shows the text D1 between PointA and PointB and no text elsewhere
\* (the recognizer ends its output with white space).
RawTexts == { <<" ">>, <<"D", "1", " ">> }

ImageText(r) ==
    IF r[3] <= PointB[1] /\ r[4] <= PointB[2] THEN <<"D", "1", " ">> ELSE <<" ">>

RECURSIVE LStrip(_)
LStrip(s) == IF s # <<>> /\ Head(s) \in Whitespace THEN LStrip(Tail(s)) ELSE s

RECURSIVE RStrip(_)
RStrip(s) ==
    IF s # <<>> /\ s[Len(s)] \in Whitespace THEN RStrip(SubSeq(s, 1, Len(s) - 1)) ELSE s

\* str.strip()
Strip(s) == RStrip(LStrip(s))

\* The post-processing of process_ocr_rectangle.
CleanText(raw) ==
    LET text == Strip(raw)
        Keep(c) == c \in Alnum \/ c \in {"_", "/"}
    IN  IF text = <<>> THEN <<"_", "P", "I", "N">> ELSE SelectSeq(text, Keep)

\* ------------------------------------------------------------------------
\* Undo history
\* ------------------------------------------------------------------------

\* A slip: the entry is put in front (insert(0, ...)).
add_to_history_Front(h, action_type, data) ==
    <<[type |-> action_type, data |-> data]>> \o h

\* A slip: the entry is not recorded.
add_to_history_Drop(h, action_type, data) == h

\* add_to_history
add_to_history(h, action_type, data) == Append(h, [type |-> action_type, data |-> data])

Front(s) == SubSeq(s, 1, Len(s) - 1)

\* A slip: pop(0) instead of pop().
Pop_First(s) == Tail(s)

\* list.pop(): the list it leaves behind.
Pop(s) == Front(s)

Last(s) == s[Len(s)]

AnnotationState ==
    [pin_locations |-> pin_locations, label_locations |-> label_locations,
     linked_pins |-> linked_pins, history |-> history,
     current_pin |-> current_pin, current_label |-> current_label]

\* ------------------------------------------------------------------------
\* mouse_callback
\* ------------------------------------------------------------------------

\* Image point under a screen point, computed on entry of the callback.
Orig(p) == get_original_coordinates(p[1], p[2], zoom_factor, offset)

\* "Show alignment guides whenever Alt is pressed": rect_end follows the
\* cursor and draw_current_state redraws, which ends in update_display.
AltRectEnd(p, mods) == IF "ALT" \in mods THEN Orig(p) ELSE rect_end

AltView(mods) ==
    IF "ALT" \in mods THEN update_display(zoom_factor, offset)
    ELSE [zoom |-> zoom_factor, offset |-> offset]

\* The view a handler leaves behind.
SetView(v) == zoom_factor' = v.zoom /\ offset' = v.offset

\* A slip: the cursor position is scaled by the new zoom alone.
WheelOffset_NoAnchor(c, off, old_zoom, new_zoom) ==
    RSub(off, RSub(RMul(RIntSub(c, off), new_zoom), RIntSub(c, off)))

\* The offset the wheel handler computes before it calls update_display.
WheelOffset(c, off, old_zoom, new_zoom) ==
    LET cursor == RDiv(RIntSub(c, off), old_zoom)
        new == RMul(cursor, new_zoom)
    IN  RSub(off, RSub(new, RIntSub(c, off)))

WheelZoom(z, up) == IF up THEN RMul(z, ZoomStep) ELSE RDiv(z, ZoomStep)

\* EVENT_MOUSEWHEEL
MouseWheel(p, mods, up) ==
    LET v0 == AltView(mods)
        zoom == WheelZoom(v0.zoom, up)
        off == << WheelOffset(p[1], v0.offset[1], v0.zoom, zoom),
                  WheelOffset(p[2], v0.offset[2], v0.zoom, zoom) >>
        v1 == update_display(zoom, off)
    IN  /\ running
        /\ wheel_count < MaxWheel
        /\ wheel_count' = wheel_count + 1
        /\ SetView(v1)
        /\ rect_end' = AltRectEnd(p, mods)
        /\ printed' = Quiet
        /\ UNCHANGED <<annotations, snapshots, drag_start, drawing_rect, rect_start,
                       crop_rect, is_cropped, running, lbutton,
                       output_file, save_result, tools>>

\* EVENT_LBUTTONDOWN with Shift, Ctrl or Alt: a rectangle starts.
LButtonDownModifier(p, mods) ==
    LET v0 == AltView(mods)
    IN  /\ running
        /\ ~lbutton
        /\ mods # {}
        /\ lbutton' = TRUE
        /\ drawing_rect' = TRUE
        /\ rect_start' = Orig(p)
        /\ rect_end' = AltRectEnd(p, mods)
        /\ SetView(v0)
        /\ printed' = Quiet
        /\ UNCHANGED <<annotations, snapshots, drag_start, crop_rect, is_cropped,
                       running, output_file, save_result,
                       wheel_count, tools>>

\* A slip: only the top-left corner of the crop is checked.
InsideCrop_LowerOnly(pt, crop) == crop[1] <= pt[1] /\ crop[2] <= pt[2]

\* "Ensure coordinates are within cropped bounds"
InsideCrop(pt, crop) ==
    /\ crop[1] <= pt[1] /\ pt[1] <= crop[3]
    /\ crop[2] <= pt[2] /\ pt[2] <= crop[4]

\* EVENT_LBUTTONDOWN without modifier: pin placement.
LButtonDownPlain(p) ==
    LET orig == Orig(p)
        inside == InsideCrop(orig, crop_rect)
        pin_data == [pin_number |-> current_pin, x |-> orig[1], y |-> orig[2]]
        v1 == update_display(zoom_factor, offset)
    IN  /\ running
        /\ ~lbutton
        /\ lbutton' = TRUE
        /\ IF is_cropped
           THEN IF inside
                THEN /\ Len(history) < MaxHistory
                     /\ pin_locations' = Append(pin_locations, pin_data)
                     /\ history' = add_to_history(history, "pin", pin_data)
                     /\ snapshots' = Append(snapshots, AnnotationState)
                     /\ printed' = "Added pin"
                     /\ current_pin' = current_pin + 1
                     /\ SetView(v1)
                ELSE /\ printed' = "Pin must be placed within the cropped region"
                     /\ UNCHANGED <<pin_locations, history, snapshots, current_pin,
                                    zoom_factor, offset>>
           ELSE /\ printed' = "Please crop the image first"
                /\ UNCHANGED <<pin_locations, history, snapshots, current_pin,
                               zoom_factor, offset>>
        /\ UNCHANGED <<label_locations, linked_pins, current_label, drag_start,
                       drawing_rect, rect_start, rect_end, crop_rect, is_cropped,
                       running, output_file, save_result, wheel_count, tools>>

\* EVENT_MOUSEMOVE
MouseMove(p, mods) ==
    LET v0 == AltView(mods)
        panned == << RAddInt(v0.offset[1], p[1] - drag_start[1]),
                     RAddInt(v0.offset[2], p[2] - drag_start[2]) >>
        v1 == IF drawing_rect /\ rect_start # None
              THEN update_display(v0.zoom, v0.offset)
              ELSE IF "RBUTTON" \in mods /\ drag_start # None
                   THEN update_display(v0.zoom, panned)
                   ELSE v0
    IN  /\ running
        /\ rect_end' = IF drawing_rect /\ rect_start # None THEN Orig(p)
                       ELSE AltRectEnd(p, mods)
        /\ drag_start' = IF ~(drawing_rect /\ rect_start # None)
                            /\ "RBUTTON" \in mods /\ drag_start # None
                         THEN p ELSE drag_start
        /\ SetView(v1)
        /\ printed' = Quiet
        /\ UNCHANGED <<annotations, snapshots, drawing_rect, rect_start, crop_rect,
                       is_cropped, running, lbutton, output_file,
                       save_result, wheel_count, tools>>

\* EVENT_RBUTTONDOWN
RButtonDown(p, mods) ==
    LET v0 == AltView(mods)
    IN  /\ running
        /\ drag_start' = p
        /\ rect_end' = AltRectEnd(p, mods)
        /\ SetView(v0)
        /\ printed' = Quiet
        /\ UNCHANGED <<annotations, snapshots, drawing_rect, rect_start, crop_rect,
                       is_cropped, running, lbutton, output_file,
                       save_result, wheel_count, tools>>

\* EVENT_RBUTTONUP
RButtonUp(p, mods) ==
    LET v0 == AltView(mods)
    IN  /\ running
        /\ drag_start' = None
        /\ rect_end' = AltRectEnd(p, mods)
        /\ SetView(v0)
        /\ printed' = Quiet
        /\ UNCHANGED <<annotations, snapshots, drawing_rect, rect_start, crop_rect,
                       is_cropped, running, lbutton, output_file,
                       save_result, wheel_count, tools>>

\* EVENT_LBUTTONUP runs a process_* method only under this condition.
RectActive(p, mods) ==
    drawing_rect /\ rect_start # None /\ AltRectEnd(p, mods) # None

\* The normalized rectangle the process_* methods work on.
Rect(p, mods) == NormRect(rect_start, AltRectEnd(p, mods))

\* draw_current_state on top of a view: it ends in update_display.
Redraw(v) == update_display(v.zoom, v.offset)

\* The end of the EVENT_LBUTTONUP branch: leave rectangle mode and redraw.
\* redraws is the number of draw_current_state calls the branch makes.
FinishRect(mods, redraws) ==
    LET v0 == AltView(mods)
        v1 == IF redraws = 2 THEN Redraw(Redraw(v0)) ELSE Redraw(v0)
    IN  /\ lbutton' = FALSE
        /\ drawing_rect' = FALSE
        /\ rect_start' = None
        /\ rect_end' = None
        /\ SetView(v1)

\* A slip: the error is swallowed and the text kept.
Recognized_Swallowed(raises, raw) == <<CleanText(raw)>>

\* The try block of process_ocr_rectangle: the text to store, None when
\* the recognition raised.
Recognized(raises, raw) == IF raises THEN None ELSE <<CleanText(raw)>>

\* EVENT_LBUTTONUP with Shift: process_ocr_rectangle.  The recognizer either
\* raises or returns raw.
LButtonUpOcr(p, mods, raises, raw) ==
    LET r == Rect(p, mods)
        text == Recognized(raises, raw)
        label_data == [label_id |-> current_label, text |-> text[1],
                       x1 |-> r[1], y1 |-> r[2], x2 |-> r[3], y2 |-> r[4]]
    IN  /\ running
        /\ lbutton
        /\ RectActive(p, mods)
        /\ "SHIFT" \in mods
        /\ IF RoiSize(r) = 0
           THEN /\ printed' = Quiet
                /\ UNCHANGED <<label_locations, history, snapshots, current_label>>
           ELSE IF text = None
                THEN /\ printed' = "Saved problematic image to ocr_debug.png"
                     /\ UNCHANGED <<label_locations, history, snapshots,
                                    current_label>>
                ELSE /\ Len(history) < MaxHistory
                     /\ label_locations' = Append(label_locations, label_data)
                     /\ history' = add_to_history(history, "label", label_data)
                     /\ snapshots' = Append(snapshots, AnnotationState)
                     /\ printed' = "Added label"
                     /\ current_label' = current_label + 1
        /\ FinishRect(mods, 1)
        /\ UNCHANGED <<pin_locations, linked_pins, current_pin, drag_start,
                       crop_rect, is_cropped, running, output_file,
                       save_result, wheel_count, tools>>

\* process_linking_rectangle: the link it makes of one pin and one label.
LinkedData(pin, label) ==
    [pin_number |-> pin.pin_number, x |-> pin.x, y |-> pin.y,
     label |-> label.text,
     label_bounds |-> [x1 |-> label.x1, y1 |-> label.y1,
                       x2 |-> label.x2, y2 |-> label.y2]]

\* EVENT_LBUTTONUP with Ctrl and no Shift: process_linking_rectangle.
LButtonUpLink(p, mods) ==
    LET r == Rect(p, mods)
        pins == contained_pins(r)
        labels == contained_labels(r)
        linked_data == LinkedData(pins[1], labels[1])
    IN  /\ running
        /\ lbutton
        /\ RectActive(p, mods)
        /\ "SHIFT" \notin mods /\ "CTRL" \in mods
        /\ IF Len(pins) = 1 /\ Len(labels) = 1
           THEN /\ Len(history) < MaxHistory
                /\ linked_pins' = Append(linked_pins, linked_data)
                /\ history' = add_to_history(history, "link", linked_data)
                /\ snapshots' = Append(snapshots, AnnotationState)
                /\ printed' = "Linked pin"
           ELSE /\ printed' = "Error: Linking rectangle must contain exactly one pin and one label"
                /\ UNCHANGED <<linked_pins, history, snapshots>>
        /\ FinishRect(mods, 1)
        /\ UNCHANGED <<pin_locations, label_locations, current_pin, current_label,
                       drag_start, crop_rect, is_cropped, running,
                       output_file, save_result, wheel_count, tools>>

\* EVENT_LBUTTONUP with Alt and neither Shift nor Ctrl: process_crop_rectangle.
LButtonUpCrop(p, mods) ==
    /\ running
    /\ lbutton
    /\ RectActive(p, mods)
    /\ mods = {"ALT"}
    /\ crop_rect' = Rect(p, mods)
    /\ is_cropped' = TRUE
    /\ printed' = "Now map all pins and labels, then press 'b' to start background removal"
    /\ FinishRect(mods, 2)
    /\ UNCHANGED <<annotations, snapshots, drag_start, running,
                   output_file, save_result, wheel_count, tools>>

\* EVENT_LBUTTONUP with a rectangle and no modifier: the rectangle is dropped.
LButtonUpPlain(p) ==
    /\ running
    /\ lbutton
    /\ RectActive(p, {})
    /\ FinishRect({}, 1)
    /\ printed' = Quiet
    /\ UNCHANGED <<annotations, snapshots, drag_start, crop_rect, is_cropped,
                   running, output_file, save_result,
                   wheel_count, tools>>

\* EVENT_LBUTTONUP while the condition of the branch is false: nothing but
\* the Alt guides.
LButtonUpIdle(p, mods) ==
    LET v0 == AltView(mods)
    IN  /\ running
        /\ lbutton
        /\ ~RectActive(p, mods)
        /\ lbutton' = FALSE
        /\ rect_end' = AltRectEnd(p, mods)
        /\ SetView(v0)
        /\ printed' = Quiet
        /\ UNCHANGED <<annotations, snapshots, drag_start, drawing_rect, rect_start,
                       crop_rect, is_cropped, running,
                       output_file, save_result, wheel_count, tools>>

\* ------------------------------------------------------------------------
\* Keys of run
\* ------------------------------------------------------------------------

\* undo_last_action
undo_last_action ==
    LET last_action == Last(history)
        action_type == last_action.type
        v1 == update_display(zoom_factor, offset)
    IN  IF history = <<>>
        THEN /\ printed' = "Nothing to undo"
             /\ UNCHANGED <<annotations, snapshots, zoom_factor, offset>>
        ELSE /\ history' = Pop(history)
             /\ snapshots' = Front(snapshots)
             /\ IF action_type = "pin" /\ pin_locations # <<>>
                THEN /\ pin_locations' = Pop(pin_locations)
                     /\ current_pin' = current_pin - 1
                     /\ printed' = "Undid pin"
                     /\ UNCHANGED <<label_locations, current_label, linked_pins>>
                ELSE IF action_type = "label" /\ label_locations # <<>>
                THEN /\ label_locations' = Pop(label_locations)
                     /\ current_label' = current_label - 1
                     /\ printed' = "Undid label"
                     /\ UNCHANGED <<pin_locations, current_pin, linked_pins>>
                ELSE IF action_type = "link" /\ linked_pins # <<>>
                THEN /\ linked_pins' = Pop(linked_pins)
                     /\ printed' = "Undid link"
                     /\ UNCHANGED <<pin_locations, current_pin, label_locations,
                                    current_label>>
                ELSE /\ printed' = Quiet
                     /\ UNCHANGED <<pin_locations, current_pin, label_locations,
                                    current_label, linked_pins>>
             /\ SetView(v1)

\* Ctrl + Z
KeyCtrlZ ==
    /\ running
    /\ undo_last_action
    /\ UNCHANGED <<drag_start, drawing_rect, rect_start, rect_end, crop_rect,
                   is_cropped, running, lbutton, output_file,
                   save_result, wheel_count, tools>>

\* The module constants of the __main__ block.
DEV_BOARD == "Arduino-UNO"

DeviceName == "Arduino UNO"

\* A slip: the coordinates are not made relative to the crop.
RelocEntry_Absolute(pin, crop) == [id |-> pin.label, points |-> <<pin.x, pin.y>>]

\* The reloc entry of one linked pin.
RelocEntry(pin, crop) ==
    [id |-> pin.label, points |-> <<pin.x - crop[1], pin.y - crop[2]>>]

\* save_pin_locations: what it returns and the record it writes (None when
\* it writes nothing).  writable tells whether os.makedirs, open and
\* json.dump go through; any exception is caught and False returned.
save_pin_locations(cropped, crop, links, writable) ==
    IF ~cropped \/ links = <<>> \/ ~writable
    THEN [ok |-> FALSE, data |-> None, printed |-> "Error saving pin locations"]
    ELSE [ok |-> TRUE,
          data |-> [name |-> DeviceName,
                    type |-> "microcontroller",
                    digital_pins |->
                        [id |-> [i \in 1..Len(links) |-> links[i].label],
                         reloc |-> [i \in 1..Len(links) |-> RelocEntry(links[i], crop)]],
                    specs |-> [processor |-> "ATmega328P", clockSpeed |-> "16 MHz",
                               voltage |-> "5V"]],
          printed |-> "Pin locations saved"]

\* F: save and hand over to the background removal tool, which ends the
\* session; without linked pins only a message.
KeyF ==
    /\ running
    /\ IF linked_pins # <<>>
       THEN \E writable \in BOOLEAN :
              LET res == save_pin_locations(is_cropped, crop_rect, linked_pins,
                                            writable)
              IN  /\ output_file' = IF res.ok THEN res.data ELSE output_file
                  /\ save_result' = <<res.ok>>
                  /\ printed' = "Pins saved! Opening background removal tool..."
                  /\ running' = FALSE
       ELSE /\ printed' = "No pins to save! Please add and link pins first."
            /\ UNCHANGED <<output_file, save_result, running>>
    /\ UNCHANGED <<annotations, snapshots, zoom_factor, offset, drag_start,
                   drawing_rect, rect_start, rect_end, crop_rect, is_cropped,
                   lbutton, wheel_count, tools>>

\* ESC
KeyEsc ==
    /\ running
    /\ running' = FALSE
    /\ printed' = Quiet
    /\ UNCHANGED <<annotations, snapshots, zoom_factor, offset, drag_start,
                   drawing_rect, rect_start, rect_end, crop_rect, is_cropped,
                   lbutton, output_file, save_result,
                   wheel_count, tools>>

\* ------------------------------------------------------------------------
\* The editor session
\* ------------------------------------------------------------------------

\* The flags of an event without modifier keys: the right button is
\* reported while it is down, that is between EVENT_RBUTTONDOWN and
\* EVENT_RBUTTONUP.
Buttons == IF drag_start # None THEN {"RBUTTON"} ELSE {}

\* No left-button gesture is in progress.
Idle == ~lbutton /\ ~drawing_rect

\* The left-button events: the annotation gestures.
EditEvents ==
    \/ \E p \in PressPoints, mods \in Modifiers : LButtonDownModifier(p, mods)
    \/ \E p \in ClickPoints : LButtonDownPlain(p)
    \/ \E p \in DragPoints, mods \in Modifiers, raises \in BOOLEAN, raw \in RawTexts :
          /\ RectActive(p, mods)
          /\ raw = ImageText(Rect(p, mods))
          /\ LButtonUpOcr(p, mods, raises, raw)
    \/ \E p \in DragPoints, mods \in Modifiers : LButtonUpLink(p, mods)
    \/ \E p \in DragPoints, mods \in Modifiers : LButtonUpCrop(p, mods)
    \/ \E p \in DragPoints : LButtonUpPlain(p)
    \/ \E p \in DragPoints, mods \in Modifiers : LButtonUpIdle(p, mods)

\* The wheel and right-button events: zoom and pan.
ViewEvents ==
    \/ \E p \in Points, mods \in Plain, up \in BOOLEAN : MouseWheel(p, mods, up)
    \/ \E p \in Points, mods \in Plain : drag_start = None /\ RButtonDown(p, mods)
    \/ \E p \in Points, mods \in Plain : drag_start # None /\ RButtonUp(p, mods)

\* The keys.  F and ESC end the session; they are pressed between gestures.
KeyEvents ==
    \/ KeyCtrlZ
    \/ Idle /\ KeyF
    \/ Idle /\ KeyEsc

\* Nothing has been drawn yet.
Pristine == Idle /\ crop_rect = None /\ history = <<>> /\ rect_end = None

\* An annotation session: the user sets the zoom first and then leaves the
\* view alone.
Next ==
    \/ \E p \in EditWheelPoints, mods \in Plain, up \in BOOLEAN :
          Pristine /\ wheel_count < MaxEditWheel /\ MouseWheel(p, mods, up)
    \/ EditEvents
    \/ \E p \in DragPoints, mods \in Plain : MouseMove(p, mods \cup Buttons)
    \/ KeyEvents

Spec == Init /\ [][Next]_vars

\* A viewing session: the user zooms and pans and draws nothing.
NextView ==
    \/ ViewEvents
    \/ \E p \in Points, mods \in Plain : MouseMove(p, mods \cup Buttons)

SpecView == Init /\ [][NextView]_vars

\* Most pins of a session that watches the view.
MaxViewPins == 1

\* A session that watches the view: the user zooms and pans first, then
\* lets go of the right button and makes the events that redraw without
\* changing the view: the Alt guides, a crop, a pin, an undo.
NextRedraw ==
    \/ Pristine /\ ViewEvents
    \/ \E p \in Points : Pristine /\ MouseMove(p, Buttons)
    \/ \E p \in DragPoints : drag_start = None /\ MouseMove(p, {"ALT"})
    \/ \E p \in PressPoints : drag_start = None /\ LButtonDownModifier(p, {"ALT"})
    \/ \E p \in DragPoints : LButtonUpCrop(p, {"ALT"})
    \/ \E p \in ClickPoints :
          /\ drag_start = None
          /\ Len(pin_locations) < MaxViewPins
          /\ LButtonDownPlain(p)
    \/ \E p \in DragPoints : LButtonUpIdle(p, {})
    \/ drag_start = None /\ KeyCtrlZ

SpecRedraw == Init /\ [][NextRedraw]_vars

\* ------------------------------------------------------------------------
\* Label reading on its own
\* ------------------------------------------------------------------------

\* Most labels of a label-reading session.
MaxOcrLabels == 2

\* Longest text the recognizer returns.
MaxTextLen == 2

\* Characters the recognizer may return.
OcrAlphabet == {"A", "1", "a", "-", " "}

\* Every text the recognizer may return.
OcrTexts ==
    UNION { [1..n -> OcrAlphabet] : n \in 0..MaxTextLen }

\* A label-reading session: Shift rectangles only, the recognizer raising
\* or returning any text.
NextOcr ==
    \/ \E p \in PressPoints :
          /\ Len(label_locations) < MaxOcrLabels
          /\ LButtonDownModifier(p, {"SHIFT"})
    \/ \E p \in DragPoints : drawing_rect /\ MouseMove(p, {"SHIFT"})
    \/ \E p \in DragPoints, raises \in BOOLEAN, raw \in OcrTexts :
          LButtonUpOcr(p, {"SHIFT"}, raises, raw)

SpecOcr == Init /\ [][NextOcr]_vars

\* ------------------------------------------------------------------------
\* save_pin_locations on its own
\* ------------------------------------------------------------------------

\* At most this many links in a saved session.
MaxLinks == 2

\* Crop rectangles of a session about to be saved.
SaveCrops == { <<PointA[1], PointA[2], PointC[1], PointC[2]>>,
               <<PointA[1], PointA[2], PointB[1], PointB[2]>>,
               <<PointB[1], PointB[2], PointC[1], PointC[2]>> }

\* Pin points of a session about to be saved.
SavePoints == {PointB, PointC}

\* Label texts of a session about to be saved.
SaveTexts == { CleanText(raw) : raw \in RawTexts }

\* A session in which n pins were placed, n labels read and each pin linked
\* to its label, or nothing was done at all; save_pin_locations has not
\* been called.
InitSave ==
    \E cropped \in BOOLEAN, crop \in SaveCrops, n \in 0..MaxLinks :
      \E pts \in [1..n -> SavePoints], txt \in [1..n -> SaveTexts] :
        LET pins == [i \in 1..n |->
                       [pin_number |-> i - 1, x |-> pts[i][1], y |-> pts[i][2]]]
            labels == [i \in 1..n |->
                         [label_id |-> i - 1, text |-> txt[i],
                          x1 |-> PointA[1], y1 |-> PointA[2],
                          x2 |-> PointC[1], y2 |-> PointC[2]]]
            links == [i \in 1..n |-> LinkedData(pins[i], labels[i])]
        IN  /\ cropped \/ (n = 0 /\ crop = <<PointA[1], PointA[2], PointC[1], PointC[2]>>)
            /\ pin_locations = pins
            /\ label_locations = labels
            /\ linked_pins = links
            /\ history = [i \in 1..n |-> [type |-> "pin", data |-> pins[i]]]
                         \o [i \in 1..n |-> [type |-> "label", data |-> labels[i]]]
                         \o [i \in 1..n |-> [type |-> "link", data |-> links[i]]]
            /\ snapshots = <<>>
            /\ current_pin = n
            /\ current_label = n
            /\ zoom_factor = RInt(1)
            /\ offset = <<RInt(0), RInt(0)>>
            /\ drag_start = None
            /\ drawing_rect = FALSE
            /\ rect_start = None
            /\ rect_end = None
            /\ crop_rect = IF cropped THEN crop ELSE None
            /\ is_cropped = cropped
            /\ running = TRUE
            /\ lbutton = FALSE
            /\ printed = Quiet
            /\ output_file = None
            /\ save_result = None
            /\ wheel_count = 0
            /\ maker = None
            /\ call = None
            /\ result = None

\* One call of save_pin_locations(output_file).
CallSavePinLocations ==
    \E writable \in BOOLEAN :
      LET res == save_pin_locations(is_cropped, crop_rect, linked_pins, writable)
      IN  /\ save_result = None
          /\ save_result' = <<res.ok>>
          /\ output_file' = IF res.ok THEN res.data ELSE output_file
          /\ printed' = res.printed
          /\ UNCHANGED <<annotations, snapshots, zoom_factor, offset, drag_start,
                         drawing_rect, rect_start, rect_end, crop_rect, is_cropped,
                         running, lbutton, wheel_count, tools>>

NextSave == CallSavePinLocations

SpecSave == InitSave /\ [][NextSave]_vars

\* ------------------------------------------------------------------------
\* DevBoardMaker (src/DevBoardMaker.py): the background removal tool
\* ------------------------------------------------------------------------

\* Size of the images of a background removal session.
MakerWidth == 24

MakerHeight == 2

\* Most snapshots on the undo stack of a session.
MaxMakerHistory == 2

\* cv2.circle(self.mask, (x, y), 10, 0, -1)
BrushRadius == 10

\* remove_similar_colors(self, x, y, tolerance=30)
DefaultTolerance == 30

\* Colors are <<blue, green, red>>.
White == <<255, 255, 255>>

Black == <<0, 0, 0>>

\* Within 30 of White on every channel.
NearWhite == <<240, 230, 226>>

\* Within 30 of NearWhite on every channel, 55 from White on one.
OffChannel == <<255, 255, 200>>

\* The pixels <<x, y>> of an image of the given size.
Pixels(width, height) == (0 .. width - 1) \X (0 .. height - 1)

\* An image that is white for its left half and black for its right half.
HalvesImage ==
    [width |-> MakerWidth, height |-> MakerHeight,
     px |-> [q \in Pixels(MakerWidth, MakerHeight) |->
               IF 2 * q[1] < MakerWidth THEN White ELSE Black]]

\* An image of three bands of nearby colors.
BandsImage ==
    [width |-> MakerWidth, height |-> MakerHeight,
     px |-> [q \in Pixels(MakerWidth, MakerHeight) |->
               IF 3 * q[1] < MakerWidth THEN White
               ELSE IF 3 * q[1] < 2 * MakerWidth THEN NearWhite
               ELSE OffChannel]]

MakerImages == {HalvesImage, BandsImage}

\* Screen positions of the mouse events of a session.
MakerPoints == {<<0, 0>>, <<MakerWidth \div 2, MakerHeight - 1>>, <<MakerWidth - 1, 0>>}

\* Keys read by waitKey: ESC, s, Ctrl+Z.
KeyEscape == 27

KeySave == 115

KeyUndo == 26

MakerKeys == {KeyEscape, KeySave, KeyUndo}

\* cv2.waitKey(1) & 0xFF when no key is pressed.
NoKey == 255

\* DevBoardMaker.__init__ followed by a successful load_image: the mask is
\* 255 everywhere.
LoadedMaker(img) ==
    [image |-> img,
     mask |-> [q \in Pixels(img.width, img.height) |-> 255],
     drawing |-> FALSE,
     mode |-> "remove",
     rect_start |-> None,
     rect_end |-> None,
     history |-> <<>>,
     key |-> NoKey,
     running |-> TRUE,
     printed |-> "- Press 'ESC': Cancel and return",
     saved |-> None]

\* A slip: the snapshot is not pushed.
save_state_Skipped(m) == m

\* save_state: push copies of image and mask (the checker pattern is a
\* function of the image size).
save_state(m) ==
    [m EXCEPT !.history = Append(@, [image |-> m.image, mask |-> m.mask])]

\* A slip: np.any instead of np.all.
SimilarColor_AnyChannel(c, color, tolerance) ==
    \E k \in 1..3 : Abs(c[k] - color[k]) <= tolerance

\* np.all(np.abs(image - color) <= tolerance, axis=2), for one pixel.
SimilarColor(c, color, tolerance) ==
    \A k \in 1..3 : Abs(c[k] - color[k]) <= tolerance

\* remove_similar_colors
remove_similar_colors(m, x, y, tolerance) ==
    LET color == m.image.px[<<x, y>>]
    IN  [m EXCEPT !.mask = [q \in DOMAIN m.mask |->
                              IF SimilarColor(m.image.px[q], color, tolerance)
                              THEN 0 ELSE m.mask[q]]]

\* cv2.circle(self.mask, (x, y), 10, 0, -1): a filled disk of zeros.
EraseDisk(m, x, y) ==
    [m EXCEPT !.mask = [q \in DOMAIN m.mask |->
                          IF (q[1] - x) * (q[1] - x) + (q[2] - y) * (q[2] - y)
                               <= BrushRadius * BrushRadius
                          THEN 0 ELSE m.mask[q]]]

\* a[y1:y2, x1:x2] of an image or a mask with pixels px.
CropPixels(px, x1, y1, x2, y2) ==
    [q \in Pixels(x2 - x1, y2 - y1) |-> px[<<q[1] + x1, q[2] + y1>>]]

\* crop_image
crop_image(m) ==
    IF m.rect_start # None /\ m.rect_end # None
    THEN LET m1 == save_state(m)
             x1 == Min(m.rect_start[1], m.rect_end[1])
             x2 == Min(Max(m.rect_start[1], m.rect_end[1]), m.image.width)
             y1 == Min(m.rect_start[2], m.rect_end[2])
             y2 == Min(Max(m.rect_start[2], m.rect_end[2]), m.image.height)
         IN  [m1 EXCEPT !.image = [width |-> x2 - x1, height |-> y2 - y1,
                                   px |-> CropPixels(m.image.px, x1, y1, x2, y2)],
                        !.mask = CropPixels(m.mask, x1, y1, x2, y2),
                        !.rect_start = None,
                        !.rect_end = None]
    ELSE m

\* mouse_callback, EVENT_LBUTTONDOWN.
MakerLButtonDown(p, shift) ==
    /\ maker # None
    /\ maker.running
    /\ ~maker.drawing
    /\ Len(maker.history) < MaxMakerHistory
    /\ maker' = IF maker.mode = "crop"
                THEN [maker EXCEPT !.drawing = TRUE, !.rect_start = p,
                                   !.printed = Quiet]
                ELSE LET m1 == save_state([maker EXCEPT !.drawing = TRUE,
                                                        !.printed = Quiet])
                     IN  IF shift
                         THEN remove_similar_colors(m1, p[1], p[2], DefaultTolerance)
                         ELSE m1
    /\ UNCHANGED <<editor, call, result>>

\* mouse_callback, EVENT_MOUSEMOVE while drawing.
MakerMouseMove(p, shift) ==
    /\ maker # None
    /\ maker.running
    /\ maker.drawing
    /\ maker' = IF maker.mode = "remove" /\ ~shift
                THEN EraseDisk([maker EXCEPT !.printed = Quiet], p[1], p[2])
                ELSE [maker EXCEPT !.printed = Quiet]
    /\ UNCHANGED <<editor, call, result>>

\* mouse_callback, EVENT_LBUTTONUP.
MakerLButtonUp(p) ==
    /\ maker # None
    /\ maker.running
    /\ maker.drawing
    /\ maker' = IF maker.mode = "crop"
                THEN crop_image([maker EXCEPT !.drawing = FALSE, !.rect_end = p,
                                              !.printed = Quiet])
                ELSE [maker EXCEPT !.drawing = FALSE, !.printed = Quiet]
    /\ UNCHANGED <<editor, call, result>>

\* undo_last_action
undo_last_action_maker(m) ==
    IF m.history # <<>>
    THEN [m EXCEPT !.image = Last(m.history).image,
                   !.mask = Last(m.history).mask,
                   !.history = Front(m.history),
                   !.printed = "Undid last action"]
    ELSE [m EXCEPT !.printed = "Nothing to undo"]

\* The loop of run after waitKey has returned key k: ESC leaves, s saves
\* and leaves, every other key is ignored.
MakerKey(k) ==
    /\ maker # None
    /\ maker.running
    /\ maker' = IF k = KeyEscape
                THEN [maker EXCEPT !.key = k, !.running = FALSE,
                                   !.printed = Quiet]
                ELSE IF k = KeySave
                THEN [maker EXCEPT !.key = k, !.running = FALSE,
                                   !.printed = "Image saved to output_path",
                                   !.saved = <<[image |-> maker.image,
                                                alpha |-> maker.mask]>>]
                ELSE [maker EXCEPT !.key = k, !.printed = Quiet]
    /\ UNCHANGED <<editor, call, result>>

\* A direct call of undo_last_action (no key of run leads to it).
CallUndoLastAction ==
    /\ maker # None
    /\ maker.running
    /\ ~maker.drawing
    /\ maker' = undo_last_action_maker(maker)
    /\ UNCHANGED <<editor, call, result>>

\* A background removal session after run has loaded an image.
InitMaker ==
    /\ PinMapperInit
    /\ \E img \in MakerImages : maker = LoadedMaker(img)
    /\ call = None
    /\ result = None

NextMaker ==
    \/ \E p \in MakerPoints, shift \in BOOLEAN : MakerLButtonDown(p, shift)
    \/ \E p \in MakerPoints, shift \in BOOLEAN : MakerMouseMove(p, shift)
    \/ \E p \in MakerPoints : MakerLButtonUp(p)
    \/ \E k \in MakerKeys : MakerKey(k)
    \/ CallUndoLastAction

SpecMaker == InitMaker /\ [][NextMaker]_vars

\* ------------------------------------------------------------------------
\* Batch scaling: resizer.py and auto_resize.py
\* ------------------------------------------------------------------------

\* Largest pin coordinate of a record to be scaled.
MaxCoord == 7

\* At most this many reloc entries in a record.
MaxReloc == 2

\* Pin points of the records.
RelocPoints == {<<0, 0>>, <<1, 3>>, <<5, 5>>, <<MaxCoord, 2>>}

\* Pin labels, by position in the record.
PinIds == <<"D1", "A0", "D2", "A1">>

\* Scale ratios.  With these and the coordinates above the float product
\* x * scale_ratio and its truncation are those of exact arithmetic, also
\* for the reciprocal ratios.
ScaleRatios == {<<1, 4>>, <<1, 2>>, <<3, 4>>, <<1, 1>>, <<3, 2>>, <<2, 1>>}

\* Shapes (width, height) of the image read by cv2.imread, None when the
\* path cannot be read.
ImageShapes == {None, <<1, 2>>, <<5, 3>>, <<MaxCoord + 1, MaxCoord + 1>>}

RelocLists == UNION {[1 .. n -> RelocPoints] : n \in 0 .. MaxReloc}

\* A record as save_pin_locations writes it.
BoardRecord(points) ==
    [name |-> DeviceName,
     type |-> "microcontroller",
     digital_pins |->
         [id |-> [i \in 1 .. Len(points) |-> PinIds[i]],
          reloc |-> [i \in 1 .. Len(points) |->
                        [id |-> PinIds[i], points |-> points[i]]]],
     specs |-> [processor |-> "ATmega328P", clockSpeed |-> "16 MHz",
                voltage |-> "5V"]]

\* The records json.load may return: with reloc entries, with digital-pins
\* but no reloc, and without digital-pins.
JsonRecords ==
    {BoardRecord(points) : points \in RelocLists}
        \cup {[name |-> DeviceName, type |-> "sensor",
               digital_pins |-> [id |-> <<"D1">>]],
              [name |-> DeviceName, type |-> "sensor"]}

\* One less than the truncated product.
ScaleCoord_OneLess(x, scale_ratio) == Trunc(RMul(RInt(x), scale_ratio)) - 1

\* int(x * scale_ratio)
ScaleCoord(x, scale_ratio) == Trunc(RMul(RInt(x), scale_ratio))

\* Only the first coordinate scaled.
ScalePin_FirstOnly(pin, scale_ratio) ==
    [pin EXCEPT !.points = <<ScaleCoord(pin.points[1], scale_ratio), pin.points[2]>>]

\* The body of the loop over data["digital-pins"]["reloc"].
ScalePin(pin, scale_ratio) ==
    [pin EXCEPT !.points = <<ScaleCoord(pin.points[1], scale_ratio),
                             ScaleCoord(pin.points[2], scale_ratio)>>]

\* "digital-pins" in data and "reloc" in data["digital-pins"]
HasReloc(data) ==
    /\ "digital_pins" \in DOMAIN data
    /\ "reloc" \in DOMAIN data.digital_pins

AdjustCoordinates(data, scale_ratio) ==
    IF HasReloc(data)
    THEN [data EXCEPT !.digital_pins.reloc =
              [i \in 1 .. Len(data.digital_pins.reloc) |->
                  ScalePin(data.digital_pins.reloc[i], scale_ratio)]]
    ELSE data

\* What a call leaves behind: the exception that left it ("" for none), the
\* shape of the image written, the record written (None for no file) and
\* the last line printed.
Raised(exception) ==
    [raised |-> exception, png |-> None, json |-> None, printed |-> Quiet]

\* resizer.resize_image_and_adjust_coordinates on an image of the given
\* shape and a json file holding data.  cv2.resize raises for an empty
\* target size, before anything is written.
resize_image_and_adjust_coordinates(image, data, scale_ratio) ==
    IF image = None
    THEN Raised("ValueError")
    ELSE LET new_width == ScaleCoord(image[1], scale_ratio)
             new_height == ScaleCoord(image[2], scale_ratio)
         IN  IF new_width <= 0 \/ new_height <= 0
             THEN Raised("cv2.error")
             ELSE [raised |-> "",
                   png |-> <<new_width, new_height>>,
                   json |-> AdjustCoordinates(data, scale_ratio),
                   printed |-> "Updated JSON saved to output_json_path"]

\* auto_resize.resize_image_and_adjust_coordinates: the same steps, with
\* other messages.
auto_resize_image_and_adjust_coordinates(image, data, scale_ratio) ==
    IF image = None
    THEN Raised("ValueError")
    ELSE LET new_width == ScaleCoord(image[1], scale_ratio)
             new_height == ScaleCoord(image[2], scale_ratio)
         IN  IF new_width <= 0 \/ new_height <= 0
             THEN Raised("cv2.error")
             ELSE [raised |-> "",
                   png |-> <<new_width, new_height>>,
                   json |-> AdjustCoordinates(data, scale_ratio),
                   printed |-> "Updated JSON saved to output_json_path"]

ResizeModules == {"resizer", "auto_resize"}

Resize(module, image, data, scale_ratio) ==
    IF module = "resizer"
    THEN resize_image_and_adjust_coordinates(image, data, scale_ratio)
    ELSE auto_resize_image_and_adjust_coordinates(image, data, scale_ratio)

\* One call on the files of a device.
CallResize(module) ==
    /\ call # None
    /\ call.stage = "start"
    /\ result = None
    /\ result' = Resize(module, call.image, call.data, call.scale_ratio)
    /\ call' = [call EXCEPT !.module = module, !.stage = "scaled"]
    /\ UNCHANGED <<editor, maker>>

\* The output of the first call scaled again, by the reciprocal ratio.
CallResizeBack ==
    /\ call # None
    /\ call.stage = "scaled"
    /\ result # None
    /\ result.raised = ""
    /\ LET back == RDiv(RInt(1), call.scale_ratio)
       IN  /\ call' = [call EXCEPT !.image = result.png, !.data = result.json,
                                   !.scale_ratio = back, !.stage = "back"]
           /\ result' = Resize(call.module, result.png, result.json, back)
    /\ UNCHANGED <<editor, maker>>

\* The files and the ratio of a call about to be made.
InitResize ==
    /\ PinMapperInit
    /\ maker = None
    /\ result = None
    /\ \E image \in ImageShapes, data \in JsonRecords, scale_ratio \in ScaleRatios :
         call = [module |-> "", stage |-> "start", image |-> image, data |-> data,
                 scale_ratio |-> scale_ratio, original |-> data]

NextResize ==
    \/ \E module \in ResizeModules : CallResize(module)
    \/ CallResizeBack

SpecResize == InitResize /\ [][NextResize]_vars

\* ------------------------------------------------------------------------
\* Folder scans: resizer.py, auto_resize.py and list_components.py
\* ------------------------------------------------------------------------

\* File names are sequences of characters.
JsonExt == <<".", "j", "s", "o", "n">>

PngExt == <<".", "p", "n", "g">>

\* Names before the extension: plain, with a dot, and empty.
Stems == {<<"a">>, <<"b">>, <<"a", ".", "b">>, <<>>}

\* The files os.listdir may report.
FileNames ==
    {stem \o ext : stem \in Stems, ext \in {JsonExt, PngExt}}
        \cup {<<"a", ".", "t", "x", "t">>}

\* f.endswith(suffix)
EndsWith(f, suffix) ==
    /\ Len(f) >= Len(suffix)
    /\ SubSeq(f, Len(f) - Len(suffix) + 1, Len(f)) = suffix

\* f[:-n]
DropLast(f, n) == SubSeq(f, 1, Len(f) - n)

\* f.split('.')[0]: the part before the first dot.
SplitFirst(f) ==
    LET dots == {i \in 1 .. Len(f) : f[i] = "."}
    IN  IF dots = {} THEN f
        ELSE SubSeq(f, 1, (CHOOSE i \in dots : \A j \in dots : i <= j) - 1)

\* os.path.splitext(f): split at the last dot, unless only dots precede it.
splitext(f) ==
    LET dots == {i \in 1 .. Len(f) : f[i] = "." /\ \E j \in 1 .. i - 1 : f[j] # "."}
    IN  IF dots = {} THEN [name |-> f, ext |-> <<>>]
        ELSE LET last == CHOOSE i \in dots : \A j \in dots : j <= i
             IN  [name |-> SubSeq(f, 1, last - 1), ext |-> SubSeq(f, last, Len(f))]

\* resizer.get_devices_from_folder on a listing.
resizer_get_devices_from_folder(files) ==
    LET json_files == {SplitFirst(f) : f \in {g \in files : EndsWith(g, JsonExt)}}
        png_files == {SplitFirst(f) : f \in {g \in files : EndsWith(g, PngExt)}}
    IN  json_files \cap png_files

\* auto_resize.get_devices_from_folder on a listing; the names of the
\* sorted list it returns.
auto_resize_get_devices_from_folder(files) ==
    LET json_files == {DropLast(f, 5) : f \in {g \in files : EndsWith(g, JsonExt)}}
        png_files == {DropLast(f, 4) : f \in {g \in files : EndsWith(g, PngExt)}}
    IN  json_files \cap png_files

\* list_components.get_matching_filenames on a listing; the names of the
\* list it returns.
get_matching_filenames(files) ==
    {splitext(f).name :
        f \in {g \in files :
                 /\ splitext(g).ext \in {JsonExt, PngExt}
                 /\ (splitext(g).name \o JsonExt) \in files
                 /\ (splitext(g).name \o PngExt) \in files}}

Scanners == {"resizer", "auto_resize", "list_components"}

Scan(scanner, files) ==
    IF scanner = "resizer" THEN resizer_get_devices_from_folder(files)
    ELSE IF scanner = "auto_resize" THEN auto_resize_get_devices_from_folder(files)
    ELSE get_matching_filenames(files)

\* One scan of the folder.
CallScan(scanner) ==
    /\ call # None
    /\ result = None
    /\ result' = [scanner |-> scanner, devices |-> Scan(scanner, call.files)]
    /\ UNCHANGED <<editor, maker, call>>

\* A folder about to be scanned.
InitScan ==
    /\ PinMapperInit
    /\ maker = None
    /\ result = None
    /\ \E files \in SUBSET FileNames : call = [files |-> files]

NextScan == \E scanner \in Scanners : CallScan(scanner)

SpecScan == InitScan /\ [][NextScan]_vars

\* ------------------------------------------------------------------------
\* Entry functions and the image they are given
\* ------------------------------------------------------------------------

PX_PER_MM == 10

GridDivisions == 10

\* Two rows of the table of real dimensions, in mm.
sensor_dimensions ==
    [device \in {"BMP280 Module", "buzzer"} |->
        IF device = "buzzer" THEN [length |-> 30, width |-> 30, height |-> 10]
        ELSE [length |-> 20, width |-> 18, height |-> 3]]

\* Device names found in the folder: two of the table and one not in it.
Devices == {"BMP280 Module", "buzzer", "unlisted-board"}

\* Shapes (width, height) of the device image, None when it cannot be read;
\* the smallest is narrower than the grid has divisions.
EntryShapes == {None, <<5, 3>>, <<20, 10>>, <<10, 40>>}

\* Records of the device.
EntryRecords ==
    {BoardRecord(<<<<1, 3>>, <<5, 5>>>>), BoardRecord(<<>>),
     [name |-> DeviceName, type |-> "sensor"]}

\* What an entry function leaves behind: the exception that left it ("" for
\* none), the last line printed, the files written and whether the
\* interactive session was entered.
Outcome(entry, raised, message, png, json, session) ==
    [entry |-> entry, raised |-> raised, printed |-> message,
     png |-> png, json |-> json, session |-> session]

\* load_image of both editors: any failure is caught and reported.
load_image(image) == image # None

\* show_image_with_grid: the exception that leaves it, "" for none.
show_image_with_grid(image) ==
    IF image = None THEN "ValueError"
    ELSE IF image[1] \div GridDivisions = 0 \/ image[2] \div GridDivisions = 0
    THEN "ZeroDivisionError"
    ELSE ""

\* PinMapper.run up to the start of the session.
PinMapperRun ==
    /\ call # None
    /\ result = None
    /\ result' = IF load_image(call.image)
                 THEN Outcome("PinMapper.run", "", "- ESC: Exit", None, None, TRUE)
                 ELSE Outcome("PinMapper.run", "",
                              "Error loading image: Image could not be loaded",
                              None, None, FALSE)
    /\ UNCHANGED <<editor, maker, call>>

\* DevBoardMaker.run up to the start of the session.
DevBoardMakerRun ==
    /\ call # None
    /\ result = None
    /\ result' = IF load_image(call.image)
                 THEN Outcome("DevBoardMaker.run", "",
                              "- Press 'ESC': Cancel and return", None, None, TRUE)
                 ELSE Outcome("DevBoardMaker.run", "",
                              "Error loading image: Image could not be loaded",
                              None, None, FALSE)
    /\ UNCHANGED <<editor, maker, call>>

\* resizer.process_device with the ratio typed by the user.
resizer_process_device(image, data, scale_ratio) ==
    LET grid == show_image_with_grid(image)
    IN  IF grid # ""
        THEN Outcome("resizer.process_device", grid, Quiet, None, None, FALSE)
        ELSE LET out == resize_image_and_adjust_coordinates(image, data, scale_ratio)
             IN  Outcome("resizer.process_device", out.raised, out.printed,
                         out.png, out.json, FALSE)

\* auto_resize.process_device.
auto_resize_process_device(device, image, data) ==
    IF image = None
    THEN Outcome("auto_resize.process_device", "", "Skipping device (image not found)",
                 None, None, FALSE)
    ELSE IF device \notin DOMAIN sensor_dimensions
    THEN Outcome("auto_resize.process_device", "", "Skipping device (no dimension data)",
                 None, None, FALSE)
    ELSE LET real_mm == Max(sensor_dimensions[device].length,
                            sensor_dimensions[device].width)
             image_px == Max(image[1], image[2])
             scale_ratio == Rat(real_mm * PX_PER_MM, image_px)
             grid == show_image_with_grid(image)
         IN  IF grid # ""
             THEN Outcome("auto_resize.process_device", grid,
                          "Scaling device to match real_mm mm width", None, None, FALSE)
             ELSE LET out == auto_resize_image_and_adjust_coordinates(image, data,
                                                                      scale_ratio)
                  IN  Outcome("auto_resize.process_device", out.raised,
                              IF out.raised = ""
                              THEN out.printed
                              ELSE "Scaling device to match real_mm mm width",
                              out.png, out.json, FALSE)

ResizerProcessDevice ==
    /\ call # None
    /\ result = None
    /\ result' = resizer_process_device(call.image, call.data, call.scale_ratio)
    /\ UNCHANGED <<editor, maker, call>>

AutoResizeProcessDevice ==
    /\ call # None
    /\ result = None
    /\ result' = auto_resize_process_device(call.device, call.image, call.data)
    /\ UNCHANGED <<editor, maker, call>>

\* A device about to be handed to an entry function.
InitEntry ==
    /\ PinMapperInit
    /\ maker = None
    /\ result = None
    /\ \E device \in Devices, image \in EntryShapes, data \in EntryRecords,
          scale_ratio \in ScaleRatios :
         call = [device |-> device, image |-> image, data |-> data,
                 scale_ratio |-> scale_ratio]

NextEntry ==
    \/ PinMapperRun
    \/ DevBoardMakerRun
    \/ ResizerProcessDevice
    \/ AutoResizeProcessDevice

SpecEntry == InitEntry /\ [][NextEntry]_vars

\* ------------------------------------------------------------------------
\* Properties of the annotation session
\* ------------------------------------------------------------------------

\* Indices of the pins whose point lies in rectangle r (inclusive bounds).
PinsWithin(r) ==
    { i \in DOMAIN pin_locations :
        /\ r[1] <= pin_locations[i].x /\ pin_locations[i].x <= r[3]
        /\ r[2] <= pin_locations[i].y /\ pin_locations[i].y <= r[4] }

\* Indices of the labels whose two corners both lie in rectangle r.
LabelsWithin(r) ==
    { j \in DOMAIN label_locations :
        /\ r[1] <= label_locations[j].x1 /\ label_locations[j].x1 <= r[3]
        /\ r[2] <= label_locations[j].y1 /\ label_locations[j].y1 <= r[4]
        /\ r[1] <= label_locations[j].x2 /\ label_locations[j].x2 <= r[3]
        /\ r[2] <= label_locations[j].y2 /\ label_locations[j].y2 <= r[4] }

\* C1: when the linking rectangle contains exactly one pin P and exactly one
\* label L, process_linking_rectangle appends exactly one Link to
\* linked_pins, carrying P's pin_number and point and L's text and bounding
\* box, and appends nothing else.
C1_LinkRule ==
    [][\A p \in DragPoints, mods \in Modifiers :
         (/\ LButtonUpLink(p, mods)
          /\ Cardinality(PinsWithin(Rect(p, mods))) = 1
          /\ Cardinality(LabelsWithin(Rect(p, mods))) = 1)
         => \E i \in PinsWithin(Rect(p, mods)), j \in LabelsWithin(Rect(p, mods)) :
              linked_pins' = Append(linked_pins,
                  [pin_number |-> pin_locations[i].pin_number,
                   x |-> pin_locations[i].x,
                   y |-> pin_locations[i].y,
                   label |-> label_locations[j].text,
                   label_bounds |-> [x1 |-> label_locations[j].x1,
                                     y1 |-> label_locations[j].y1,
                                     x2 |-> label_locations[j].x2,
                                     y2 |-> label_locations[j].y2]])
    ]_vars

\* A link has just been made while a second pin lay outside the rectangle.
C1_Witness ==
    /\ printed = "Linked pin"
    /\ Len(pin_locations) = 2
    /\ Len(linked_pins) = 1

\* C2: when the linking rectangle does not contain exactly one pin or does
\* not contain exactly one label, process_linking_rectangle changes none of
\* pin_locations, label_locations, linked_pins, history, current_pin and
\* current_label.
C2_RejectedLinkChangesNothing ==
    [][\A p \in DragPoints, mods \in Modifiers :
         (/\ LButtonUpLink(p, mods)
          /\ \/ Cardinality(PinsWithin(Rect(p, mods))) # 1
             \/ Cardinality(LabelsWithin(Rect(p, mods))) # 1)
         => UNCHANGED annotations
    ]_vars

\* A linking rectangle has just been rejected although pins and labels
\* exist (it held two of a kind, or none of the other).
C2_Witness ==
    /\ printed = "Error: Linking rectangle must contain exactly one pin and one label"
    /\ pin_locations # <<>>
    /\ Len(label_locations) = 2

\* C3: no pin_number occurs in more than one entry of linked_pins (linked
\* pins are not gathered again by a linking rectangle).
C3_NoPinLinkedTwice ==
    \A i, j \in DOMAIN linked_pins :
        linked_pins[i].pin_number = linked_pins[j].pin_number => i = j

\* The annotation state before any action.
EmptyAnnotations ==
    [pin_locations |-> <<>>, label_locations |-> <<>>, linked_pins |-> <<>>,
     history |-> <<>>, current_pin |-> 0, current_label |-> 0]

\* C4: undo is last-in-first-out: an undo with a non-empty history brings
\* pin_locations, label_locations, linked_pins, history, current_pin and
\* current_label back to what they were just before the most recent action
\* that is not yet undone, so n actions followed by n undos restore the
\* state before the first of them; undoing everything restores the empty
\* state.
C4_UndoIsLifo ==
    [][(history # <<>> /\ KeyCtrlZ)
         => /\ AnnotationState' = Last(snapshots)
            /\ history' = <<>> => AnnotationState' = EmptyAnnotations
    ]_vars

\* A link made after a pin and a label has just been undone.
C4_Witness ==
    /\ printed = "Undid link"
    /\ Len(history) = 2
    /\ history[1].type = "pin"
    /\ history[2].type = "label"

\* C5: one undo with a non-empty history pops the most recent history
\* entry and removes the last element of the list of the entry's kind,
\* which is the entry's payload; the two other lists, the crop rectangle
\* and the view are unchanged.  With an empty history nothing changes.
C5_UndoPopsOne ==
    [][KeyCtrlZ =>
         IF history = <<>>
         THEN UNCHANGED <<annotations, crop_rect, is_cropped, zoom_factor, offset>>
         ELSE /\ history' = SubSeq(history, 1, Len(history) - 1)
              /\ history[Len(history)].type = "pin" =>
                   /\ pin_locations # <<>>
                   /\ pin_locations[Len(pin_locations)] = history[Len(history)].data
                   /\ pin_locations' = SubSeq(pin_locations, 1, Len(pin_locations) - 1)
                   /\ UNCHANGED <<label_locations, linked_pins>>
              /\ history[Len(history)].type = "label" =>
                   /\ label_locations # <<>>
                   /\ label_locations[Len(label_locations)] = history[Len(history)].data
                   /\ label_locations' = SubSeq(label_locations, 1, Len(label_locations) - 1)
                   /\ UNCHANGED <<pin_locations, linked_pins>>
              /\ history[Len(history)].type = "link" =>
                   /\ linked_pins # <<>>
                   /\ linked_pins[Len(linked_pins)] = history[Len(history)].data
                   /\ linked_pins' = SubSeq(linked_pins, 1, Len(linked_pins) - 1)
                   /\ UNCHANGED <<pin_locations, label_locations>>
              /\ history[Len(history)].type \in {"pin", "label", "link"}
              /\ UNCHANGED <<crop_rect, is_cropped, zoom_factor, offset>>
    ]_vars

\* A pin has just been undone in a zoomed view while another pin stays.
C5_Witness ==
    /\ printed = "Undid pin"
    /\ zoom_factor # RInt(1)
    /\ Len(pin_locations) = 1
    /\ is_cropped

\* The four mutating gestures: place pin, accept OCR label, create link,
\* crop.
MutatingAction ==
    \/ \E p \in ClickPoints : LButtonDownPlain(p)
    \/ \E p \in DragPoints, mods \in Modifiers, raises \in BOOLEAN, raw \in RawTexts :
          LButtonUpOcr(p, mods, raises, raw)
    \/ \E p \in DragPoints, mods \in Modifiers : LButtonUpLink(p, mods)
    \/ \E p \in DragPoints, mods \in Modifiers : LButtonUpCrop(p, mods)

\* C6 as stated: every mutating action (place pin, accept OCR label, create
\* link, crop) that changes pin_locations, label_locations, linked_pins or
\* the crop rectangle adds exactly one history entry in the same event.
C6_EveryMutationRecorded ==
    [][(/\ MutatingAction
        /\ <<pin_locations, label_locations, linked_pins, crop_rect>>'
             # <<pin_locations, label_locations, linked_pins, crop_rect>>)
         => Len(history') = Len(history) + 1
    ]_vars

\* C6: placing a pin, accepting an OCR label and creating a link each add
\* exactly one history entry, whose payload is the element appended; a crop
\* sets the crop rectangle and leaves history as it is.
C6_Amended ==
    [][/\ (/\ MutatingAction
           /\ <<pin_locations, label_locations, linked_pins>>'
                # <<pin_locations, label_locations, linked_pins>>)
         => /\ Len(history') = Len(history) + 1
            /\ SubSeq(history', 1, Len(history)) = history
            /\ history'[Len(history')].data \in
                 { s[Len(s)] : s \in { t \in {pin_locations', label_locations',
                                              linked_pins'} : t # <<>> } }
       /\ (\E p \in DragPoints, mods \in Modifiers : LButtonUpCrop(p, mods))
         => /\ history' = history
            /\ is_cropped' /\ crop_rect' # None
    ]_vars

\* A crop has just been made on top of recorded annotations, replacing an
\* earlier crop.
C6_Witness ==
    /\ printed = "Now map all pins and labels, then press 'b' to start background removal"
    /\ history # <<>>
    /\ crop_rect = <<PointA[1], PointA[2], PointB[1], PointB[2]>>

\* C7: a plain left click adds a pin only when a crop rectangle is set and
\* the clicked image point lies inside it (inclusive bounds); without a
\* crop, or outside it, pin_locations, history and current_pin are
\* unchanged.
C7_PinOnlyInsideCrop ==
    [][\A p \in ClickPoints :
         LButtonDownPlain(p) =>
           LET pt == Orig(p)
               inside == IF is_cropped /\ crop_rect # None
                         THEN /\ crop_rect[1] <= pt[1] /\ pt[1] <= crop_rect[3]
                              /\ crop_rect[2] <= pt[2] /\ pt[2] <= crop_rect[4]
                         ELSE FALSE
           IN  IF inside
               THEN /\ Len(pin_locations') = Len(pin_locations) + 1
                    /\ pin_locations'[Len(pin_locations')].x = pt[1]
                    /\ pin_locations'[Len(pin_locations')].y = pt[2]
               ELSE UNCHANGED <<pin_locations, history, current_pin>>
    ]_vars

\* A click beyond the bottom-right corner of the crop has just been
\* refused.
C7_Witness ==
    /\ printed = "Pin must be placed within the cropped region"
    /\ is_cropped
    /\ crop_rect[3] < PointC[1]

\* ------------------------------------------------------------------------
\* Properties of save_pin_locations
\* ------------------------------------------------------------------------

\* C8: save_pin_locations writes a record whose digital-pins id and reloc
\* lists have the length and order of linked_pins, with id[i] = reloc[i].id
\* = linked_pins[i].label and reloc[i].points = the pin's point minus the
\* crop rectangle's top-left corner; when the image is not cropped or
\* linked_pins is empty it writes nothing and returns False.
C8_SavedRecord ==
    save_result # None =>
      /\ (~is_cropped \/ linked_pins = <<>>) =>
            save_result = <<FALSE>> /\ output_file = None
      /\ save_result = <<FALSE>> => output_file = None
      /\ save_result = <<TRUE>> =>
            /\ is_cropped /\ linked_pins # <<>>
            /\ output_file # None
            /\ Len(output_file.digital_pins.id) = Len(linked_pins)
            /\ Len(output_file.digital_pins.reloc) = Len(linked_pins)
            /\ \A i \in DOMAIN linked_pins :
                 /\ output_file.digital_pins.id[i] = linked_pins[i].label
                 /\ output_file.digital_pins.reloc[i].id = linked_pins[i].label
                 /\ output_file.digital_pins.reloc[i].points =
                      << linked_pins[i].x - crop_rect[1],
                         linked_pins[i].y - crop_rect[2] >>

\* Two links with different labels have been saved under a crop whose
\* top-left corner is not the origin.
C8_Witness ==
    /\ save_result = <<TRUE>>
    /\ Len(linked_pins) = 2
    /\ linked_pins[1].label # linked_pins[2].label
    /\ linked_pins[1].x # linked_pins[2].x
    /\ crop_rect[1] > 0 /\ crop_rect[2] > 0

\* ------------------------------------------------------------------------
\* Properties of the view
\* ------------------------------------------------------------------------

\* The image size times zoom_factor, truncated to integer.
ScaledSize(size) == Trunc(RMul(RInt(size), zoom_factor))

\* viewport - scaled <= o <= 0 for a rational o.
WithinClamp(o, size) ==
    /\ (size - ScaledSize(size)) * o[2] <= o[1]
    /\ o[1] <= 0

\* C9: after any pan or zoom event, viewport_size - scaled_size <= offset
\* <= 0 holds on both axes whenever scaled_size >= viewport_size.
C9_OffsetClamped ==
    /\ ScaledSize(ImgWidth) >= ImgWidth => WithinClamp(offset[1], ImgWidth)
    /\ ScaledSize(ImgHeight) >= ImgHeight => WithinClamp(offset[2], ImgHeight)

\* A pan in a zoomed-in view has been stopped at the lower bound on both
\* axes.
C9_Witness ==
    /\ ScaledSize(ImgWidth) > ImgWidth
    /\ ScaledSize(ImgHeight) > ImgHeight
    /\ offset[1] = RInt(ImgWidth - ScaledSize(ImgWidth))
    /\ offset[2] = RInt(ImgHeight - ScaledSize(ImgHeight))

\* (s - offset) / zoom on one axis: the image coordinate under screen
\* coordinate s.
ImageCoordinate(s, off, z) == RDiv(RIntSub(s, off), z)

\* Two rationals differ by less than one.
WithinOnePixel(a, b) == LET d == RSub(a, b) IN Abs(d[1]) < d[2]

\* C10 as stated: the image coordinate under the cursor before a wheel
\* event and after it (update_display included) differ by less than one
\* pixel on each axis.
C10_CursorAnchored ==
    [][\A p \in Points, up \in BOOLEAN :
         MouseWheel(p, {}, up) =>
           \A axis \in {1, 2} :
             WithinOnePixel(ImageCoordinate(p[axis], offset[axis], zoom_factor),
                            ImageCoordinate(p[axis], offset'[axis], zoom_factor'))
    ]_vars

\* The clamp of update_display did not act on an axis: the offset lies
\* strictly between viewport - scaled and 0.
StrictlyWithinClamp(o, size) ==
    /\ (size - ScaledSize(size)) * o[2] < o[1]
    /\ o[1] < 0

\* C10: on each axis where the offset after a wheel event lies strictly
\* between viewport_size - scaled_size and 0 (update_display has not moved
\* it), the image coordinate under the cursor before and after the event
\* differ by less than one pixel.
C10_Amended ==
    [][\A p \in Points, up \in BOOLEAN :
         MouseWheel(p, {}, up) =>
           /\ StrictlyWithinClamp(offset[1], ImgWidth)' =>
                WithinOnePixel(ImageCoordinate(p[1], offset[1], zoom_factor),
                               ImageCoordinate(p[1], offset'[1], zoom_factor'))
           /\ StrictlyWithinClamp(offset[2], ImgHeight)' =>
                WithinOnePixel(ImageCoordinate(p[2], offset[2], zoom_factor),
                               ImageCoordinate(p[2], offset'[2], zoom_factor'))
    ]_vars

\* Two wheel events have left an offset the clamp did not touch on either
\* axis.
C10_Witness ==
    /\ wheel_count >= 2
    /\ StrictlyWithinClamp(offset[1], ImgWidth)
    /\ StrictlyWithinClamp(offset[2], ImgHeight)
    /\ offset[1][2] > 1

\* ------------------------------------------------------------------------
\* Properties of label reading
\* ------------------------------------------------------------------------

\* The characters of the recognizer's whitelist.
Whitelist ==
    {"A", "B", "C", "D", "E", "F", "G", "H", "I", "J", "K", "L", "M", "N", "O",
     "P", "Q", "R", "S", "T", "U", "V", "W", "X", "Y", "Z",
     "0", "1", "2", "3", "4", "5", "6", "7", "8", "9", "_", "/"}

\* C11: every label of label_locations has a non-empty text made of
\* whitelist characters only (A-Z, 0-9, underscore, slash), whatever string
\* the recognizer returned.
C11_LabelTextWhitelisted ==
    \A i \in DOMAIN label_locations :
        /\ label_locations[i].text # <<>>
        /\ \A k \in DOMAIN label_locations[i].text :
             label_locations[i].text[k] \in Whitelist

\* C12: when the recognition raises inside process_ocr_rectangle,
\* label_locations, history and current_label keep their values, and the
\* editor goes on: the loop of run is not left and the rectangle gesture is
\* over, so the next press is accepted.
C12_OcrErrorNonFatal ==
    [][\A p \in DragPoints, raw \in OcrTexts :
         (/\ LButtonUpOcr(p, {"SHIFT"}, TRUE, raw)
          /\ RoiSize(Rect(p, {"SHIFT"})) # 0)
         => /\ UNCHANGED <<label_locations, history, current_label>>
            /\ running' /\ ~lbutton' /\ ~drawing_rect'
            /\ rect_start' = None
    ]_vars

\* The recognition has just raised while a label read before it is kept.
C12_Witness ==
    /\ printed = "Saved problematic image to ocr_debug.png"
    /\ Len(label_locations) = 1
    /\ running /\ ~drawing_rect

\* ------------------------------------------------------------------------
\* Properties of the background removal tool
\* ------------------------------------------------------------------------

\* C13: remove_similar_colors (Shift + click, tolerance 30) sets the mask
\* to 0 for exactly the pixels whose difference from the color sampled at
\* the click is at most the tolerance on all three channels, anywhere in the
\* image, and leaves the mask of every other pixel as it was; so on the
\* image of a white and a black half a click on white zeroes exactly the
\* white half.
C13_SimilarColorsErased ==
    [][\A p \in MakerPoints :
         MakerLButtonDown(p, TRUE) =>
           \A q \in Pixels(maker.image.width, maker.image.height) :
             maker'.mask[q] =
               IF /\ Abs(maker.image.px[q][1] - maker.image.px[p][1]) <= DefaultTolerance
                  /\ Abs(maker.image.px[q][2] - maker.image.px[p][2]) <= DefaultTolerance
                  /\ Abs(maker.image.px[q][3] - maker.image.px[p][3]) <= DefaultTolerance
               THEN 0 ELSE maker.mask[q]
    ]_vars

\* On the image of two halves exactly the white half has been erased.
C13_Witness ==
    /\ maker # None
    /\ maker.image = HalvesImage
    /\ \A q \in DOMAIN maker.mask :
         maker.mask[q] = IF maker.image.px[q] = White THEN 0 ELSE 255
    /\ Len(maker.history) = 1

\* C14: the press that starts an erase gesture pushes the image and mask
\* as they are before anything is erased, moves and release leave the undo
\* stack alone, and undo_last_action restores the top snapshot and pops it;
\* so an erase gesture (press, moves, release) followed by one undo leaves
\* image and mask as they were before the press.
C14_SnapshotBeforeErase ==
    [][/\ \A p \in MakerPoints, shift \in BOOLEAN :
            MakerLButtonDown(p, shift) =>
              /\ maker'.history =
                   Append(maker.history, [image |-> maker.image, mask |-> maker.mask])
              /\ maker'.image = maker.image
       /\ \A p \in MakerPoints, shift \in BOOLEAN :
            (MakerMouseMove(p, shift) \/ MakerLButtonUp(p)) =>
              /\ maker'.history = maker.history
              /\ maker'.image = maker.image
              /\ maker.history # <<>>
       /\ (CallUndoLastAction /\ maker.history # <<>>) =>
              /\ maker'.image = maker.history[Len(maker.history)].image
              /\ maker'.mask = maker.history[Len(maker.history)].mask
              /\ maker'.history = SubSeq(maker.history, 1, Len(maker.history) - 1)
    ]_vars

\* The second of two erase gestures has just been undone: the mask shows
\* the erasure of the first gesture only.
C14_Witness ==
    /\ maker # None
    /\ maker.printed = "Undid last action"
    /\ Len(maker.history) = 1
    /\ maker.mask # maker.history[1].mask

\* C15: from a state with a non-empty undo stack, the Ctrl+Z key event of
\* DevBoardMaker.run applies undo_last_action: the stack is shortened by
\* one and image and mask are restored from the popped snapshot.
C15_CtrlZUndoes ==
    [][(/\ MakerKey(KeyUndo)
        /\ maker.history # <<>>)
         => /\ Len(maker'.history) = Len(maker.history) - 1
            /\ maker'.image = maker.history[Len(maker.history)].image
            /\ maker'.mask = maker.history[Len(maker.history)].mask
    ]_vars

\* ------------------------------------------------------------------------
\* Properties of batch scaling
\* ------------------------------------------------------------------------

\* The integer nearest to n / d for n >= 0, d > 0, halves to the even
\* neighbour.
Round(n, d) ==
    LET q == n \div d
        twice == 2 * (n % d)
    IN  IF twice < d THEN q
        ELSE IF twice > d THEN q + 1
        ELSE IF q % 2 = 0 THEN q ELSE q + 1

\* A first call that went through.
Scaled == call # None /\ call.stage = "scaled" /\ result # None /\ result.raised = ""

\* C16: for an image of width w and height h and a scale ratio r the
\* output image has size (round(w*r), round(h*r)).
C16_OutputSizeRounded ==
    Scaled =>
        result.png = <<Round(call.image[1] * call.scale_ratio[1], call.scale_ratio[2]),
                       Round(call.image[2] * call.scale_ratio[1], call.scale_ratio[2])>>

\* C17: the JSON written has, for every digital-pins.reloc entry, points
\* (trunc(x*r), trunc(y*r)) of its input points (x, y); the number and
\* order of the entries, their ids and every other field of the record are
\* unchanged; a record without digital-pins.reloc is written back unchanged.
C17_RelocScaled ==
    Scaled =>
        IF "digital_pins" \in DOMAIN call.original
              /\ "reloc" \in DOMAIN call.original.digital_pins
        THEN LET before == call.original.digital_pins.reloc
                 after == result.json.digital_pins.reloc
                 n == call.scale_ratio[1]
                 d == call.scale_ratio[2]
             IN  /\ Len(after) = Len(before)
                 /\ \A i \in 1 .. Len(before) :
                      /\ after[i].id = before[i].id
                      /\ DOMAIN after[i] = DOMAIN before[i]
                      /\ after[i].points = <<(before[i].points[1] * n) \div d,
                                             (before[i].points[2] * n) \div d>>
                 /\ [result.json EXCEPT !.digital_pins.reloc = before] = call.original
        ELSE result.json = call.original

\* Two pins have been scaled by 3/4: (5, 5) to (3, 3) and (7, 2) to (5, 1).
C17_Witness ==
    /\ Scaled
    /\ call.scale_ratio = <<3, 4>>
    /\ call.original = BoardRecord(<<<<5, 5>>, <<MaxCoord, 2>>>>)
    /\ result.json.digital_pins.reloc[1].points # <<5, 5>>
    /\ result.json.digital_pins.reloc[2].points[2] = 1

\* A record scaled by r and then by 1 / r, both calls gone through.
ScaledBack ==
    /\ call # None
    /\ call.stage = "back"
    /\ result # None
    /\ result.raised = ""
    /\ "digital_pins" \in DOMAIN call.original
    /\ "reloc" \in DOMAIN call.original.digital_pins

\* Every coordinate after the round trip is within 1 of the original.
RoundTripWithinOne ==
    \A i \in 1 .. Len(call.original.digital_pins.reloc), k \in 1 .. 2 :
        Abs(result.json.digital_pins.reloc[i].points[k]
              - call.original.digital_pins.reloc[i].points[k]) <= 1

\* C18: for every scale ratio r > 0 and every non-negative pin coordinate
\* x, scaling by r and then by 1 / r yields a coordinate within 1 of x.
C18_RoundTrip == ScaledBack => RoundTripWithinOne

\* C18, amended: the same for every scale ratio r >= 1 (the ratio of the
\* second call is then at most 1).
C18_Amended ==
    (ScaledBack /\ RLeInt(call.scale_ratio, 1)) => RoundTripWithinOne

\* Scaled by 3/2 and back by 2/3, the coordinate 1 has come back as 0.
C18_Witness ==
    /\ ScaledBack
    /\ call.scale_ratio = <<2, 3>>
    /\ Len(call.original.digital_pins.reloc) >= 1
    /\ call.original.digital_pins.reloc[1].points = <<1, 3>>
    /\ result.json.digital_pins.reloc[1].points[1] = 0

\* ------------------------------------------------------------------------
\* Properties of the folder scans
\* ------------------------------------------------------------------------

\* The names with both <name>.json and <name>.png in the listing.
Eligible(files) ==
    {DropLast(f, Len(JsonExt)) :
        f \in {g \in files :
                 /\ EndsWith(g, JsonExt)
                 /\ (DropLast(g, Len(JsonExt)) \o PngExt) \in files}}

\* C19: each of the three scanners returns a name if and only if both
\* <name>.json and <name>.png are in the listing, also for file names with
\* more than one dot; so the three return the same set of names.
C19_ScanContract ==
    (call # None /\ result # None) => result.devices = Eligible(call.files)

\* ------------------------------------------------------------------------
\* Properties of the entry functions
\* ------------------------------------------------------------------------

\* C20: when the image cannot be read, every entry function (PinMapper.run,
\* DevBoardMaker.run, process_device of resizer and of auto_resize) ends
\* with a printed message, without an exception and without an output file.
C20_UnreadableImageAborts ==
    (call # None /\ result # None /\ call.image = None) =>
        /\ result.raised = ""
        /\ result.printed # Quiet
        /\ result.png = None
        /\ result.json = None
        /\ ~result.session

\* ------------------------------------------------------------------------
\* Properties of the annotation session as a whole
\* ------------------------------------------------------------------------

\* C21: while a crop rectangle is set, every pin of pin_locations and
\* every linked pin lies inside it (inclusive bounds), also after the crop
\* rectangle has been drawn again; so every reloc point written by
\* save_pin_locations lies between 0 and the crop width and height.
C21_PinsInsideCurrentCrop ==
    (is_cropped /\ crop_rect # None) =>
        /\ \A i \in DOMAIN pin_locations :
             /\ crop_rect[1] <= pin_locations[i].x /\ pin_locations[i].x <= crop_rect[3]
             /\ crop_rect[2] <= pin_locations[i].y /\ pin_locations[i].y <= crop_rect[4]
        /\ \A i \in DOMAIN linked_pins :
             /\ crop_rect[1] <= linked_pins[i].x /\ linked_pins[i].x <= crop_rect[3]
             /\ crop_rect[2] <= linked_pins[i].y /\ linked_pins[i].y <= crop_rect[4]
        /\ output_file # None =>
             \A i \in DOMAIN output_file.digital_pins.reloc :
                LET pt == output_file.digital_pins.reloc[i].points
                IN  /\ 0 <= pt[1] /\ pt[1] <= crop_rect[3] - crop_rect[1]
                    /\ 0 <= pt[2] /\ pt[2] <= crop_rect[4] - crop_rect[2]

\* C22: every entry of linked_pins refers to a pin still present in
\* pin_locations (same pin_number and coordinates) and to a label still
\* present in label_locations (same text and bounding box), after any
\* sequence of placements, labels, links and undos; so an undo never
\* removes a pin or a label that a remaining link uses.
C22_LinksReferToPresentItems ==
    \A k \in DOMAIN linked_pins :
        /\ \E i \in DOMAIN pin_locations :
             /\ pin_locations[i].pin_number = linked_pins[k].pin_number
             /\ pin_locations[i].x = linked_pins[k].x
             /\ pin_locations[i].y = linked_pins[k].y
        /\ \E j \in DOMAIN label_locations :
             /\ label_locations[j].text = linked_pins[k].label
             /\ label_locations[j].x1 = linked_pins[k].label_bounds.x1
             /\ label_locations[j].y1 = linked_pins[k].label_bounds.y1
             /\ label_locations[j].x2 = linked_pins[k].label_bounds.x2
             /\ label_locations[j].y2 = linked_pins[k].label_bounds.y2

\* A pin placed after a link has just been undone, and the link remains.
C22_Witness ==
    /\ printed = "Undid pin"
    /\ Len(linked_pins) = 1
    /\ Len(pin_locations) = 1
    /\ pin_locations[1].pin_number = linked_pins[1].pin_number

\* C23: pin numbers are consecutive from 0: the pin at position i of
\* pin_locations (counted from 0) has pin_number i and current_pin is the
\* length of pin_locations; likewise label_id and current_label for
\* label_locations; after any placements, rejected clicks and undos.
C23_NumbersConsecutive ==
    /\ current_pin = Len(pin_locations)
    /\ \A i \in DOMAIN pin_locations : pin_locations[i].pin_number = i - 1
    /\ current_label = Len(label_locations)
    /\ \A j \in DOMAIN label_locations : label_locations[j].label_id = j - 1

\* Two pins and a label remain after a second label has been undone.
C23_Witness ==
    /\ printed = "Undid label"
    /\ Len(pin_locations) = 2
    /\ Len(label_locations) = 1
    /\ current_pin = 2
    /\ current_label = 1

\* C24: after every left-button release the editor has left
\* rectangle-drawing mode: drawing_rect is false and rect_start is None,
\* whatever modifiers were held and whether or not the mouse moved between
\* press and release.  (lbutton falls exactly in the release events.)
C24_ReleaseLeavesRectMode ==
    [][(lbutton /\ ~lbutton') => (~drawing_rect' /\ rect_start' = None)]_vars

\* ------------------------------------------------------------------------
\* Properties of the redraw
\* ------------------------------------------------------------------------

\* Offsets, per axis, that update_display is tried on: far left, between
\* pixels, zero, positive, far right.
ProbeOffsets == {<<0 - 40, 1>>, <<0 - 7, 2>>, <<0 - 1, 2>>, <<0, 1>>, <<1, 3>>,
                 <<9, 1>>, <<40, 1>>}

\* For zoom factor z and every probe offset (the two axes are clamped and
\* sliced independently, so the same offset is tried on both): when the
\* scaled image has a pixel per axis, both ranges of the blit lie inside
\* their arrays, they have the same width and height, and update_display
\* keeps z and the clamped offset.
BlitNeverFails(z) ==
    \A o \in ProbeOffsets :
        LET r == VisibleRegion(z, <<o, o>>)
        IN  (r.new_width >= 1 /\ r.new_height >= 1) =>
              /\ 0 <= r.x1 /\ r.x1 <= r.x2 /\ r.x2 <= ImgWidth
              /\ 0 <= r.y1 /\ r.y1 <= r.y2 /\ r.y2 <= ImgHeight
              /\ 0 <= r.display_x1 /\ r.display_x1 <= r.display_x2
              /\ r.display_x2 <= r.new_width
              /\ 0 <= r.display_y1 /\ r.display_y1 <= r.display_y2
              /\ r.display_y2 <= r.new_height
              /\ r.x2 - r.x1 = r.display_x2 - r.display_x1
              /\ r.y2 - r.y1 = r.display_y2 - r.display_y1
              /\ update_display(z, <<o, o>>) = [zoom |-> z, offset |-> r.offset]

\* C25: in update_display, for every zoom factor that leaves the scaled
\* image a pixel per axis and every offset, after the clamp the two ranges
\* of the blit have the same size and lie inside their arrays, so the
\* fallback that resets the view is never taken; and zoom_factor and
\* offset are changed by wheel and right-drag events only.
C25_ViewOnlyChangedByZoomAndPan ==
    [][/\ BlitNeverFails(zoom_factor')
       /\ (zoom_factor' # zoom_factor \/ offset' # offset) =>
             \/ \E p \in Points, up \in BOOLEAN : MouseWheel(p, {}, up)
             \/ \E p \in Points :
                   /\ drag_start # None
                   /\ ~(drawing_rect /\ rect_start # None)
                   /\ MouseMove(p, {"RBUTTON"})
    ]_vars

\* A pin has been placed, and the view redrawn, under a view that is
\* zoomed in and panned.
C25_Witness ==
    /\ printed = "Added pin"
    /\ is_cropped
    /\ ScaledSize(ImgWidth) > ImgWidth
    /\ offset[1][1] < 0
    /\ offset[2][1] < 0

====
